---- MODULE Spec2Model ----
(***************************************************************************)
(* Offline-first task synchronisation of PWA_App: the Local Store          *)
(* (frontend/src/hooks/useIndexedDB.js), the Sync Engine                   *)
(* (frontend/src/hooks/useTaskSync.js), the Remote Client                  *)
(* (services/api) and the remote store (backend/index.js).                 *)
(*                                                                         *)
(* A task is a JavaScript object, modelled as a TLA+ record whose DOMAIN   *)
(* is the set of properties the object carries; the spread                 *)
(* {...a, ...b} is the function override  b @@ a.  Date.now().toString()   *)
(* is injective on the clock values, so an id is modelled by the clock     *)
(* value it was taken from.                                                *)
(***************************************************************************)
EXTENDS Integers, Sequences, FiniteSets, TLC

\* ------------------------------------------------------------- bounds
\* Date.now() ranges over 0..MaxClock (milliseconds).
MaxClock == 1
\* The remote store's task array holds at most MaxRemote records.
MaxRemote == 2
\* A behaviour makes at most MaxCalls calls of addTask, updateTask, deleteTask,
\* getTasks and getStats, and starts at most MaxPasses reconciliation passes.
MaxCalls == 3
MaxPasses == 2

\* ------------------------------------------------------ JavaScript values
\* {...base, ...over}
Spread(base, over) == over @@ base

\* obj.f is truthy, for a property that is a boolean when present
Truthy(obj, f) == f \in DOMAIN obj /\ obj[f] = TRUE

\* obj.title is a non-empty string
HasTitle(obj) == "title" \in DOMAIN obj /\ obj.title # ""

\* A string holding image data: a data-URI prefix of `prefix` characters
\* followed by the `b64` base64 characters that encode `bytes` bytes.
\* NoImage stands for null.
NoImage == [prefix |-> 0, b64 |-> 0, bytes |-> 0]

\* data.length
DataLength(img) == img.prefix + img.b64

\* The base64 text of n bytes, as FileReader / canvas.toDataURL produce it
\* (padded with '=' to a multiple of four characters).
Base64Length(n) == 4 * ((n + 2) \div 3)

\* "data:image/jpeg;base64,".length
DataUriPrefixLength == 23

RECURSIVE SortById(_)
\* IDBObjectStore.getAll() returns the records in key order.
SortById(S) ==
    IF S = {} THEN <<>>
    ELSE LET r == CHOOSE x \in S : \A y \in S : x.id <= y.id
         IN  <<r>> \o SortById(S \ {r})

\* Array.prototype.findIndex: the first index whose record has this id, or 0
FindIndex(tasks, id) ==
    IF \E i \in 1..Len(tasks) : tasks[i].id = id
    THEN CHOOSE i \in 1..Len(tasks) :
             /\ tasks[i].id = id
             /\ \A j \in 1..(i - 1) : tasks[j].id # id
    ELSE 0

\* ------------------------------------------------ Local Store (IndexedDB)
\* A store is a set of records; the object store's keyPath is 'id'.

\* an addTask whose store.add accepts a key that is already stored
addTaskLocalNoKeyCheck(store, dbState, task, t) ==
    LET newTask == Spread(task, [id |-> t, updatedAt |-> t, synced |-> FALSE])
    IN  IF dbState # "open"
        THEN [ok |-> FALSE, error |-> "Database not initialized",
              store |-> store, task |-> newTask]
        ELSE [ok |-> TRUE, error |-> "", store |-> store \cup {newTask},
              task |-> newTask]

\* useIndexedDB.addTask
addTaskLocal(store, dbState, task, t) ==
    LET newTask == Spread(task, [id |-> t, updatedAt |-> t, synced |-> FALSE])
    IN  IF dbState # "open"
        THEN [ok |-> FALSE, error |-> "Database not initialized",
              store |-> store, task |-> newTask]
        ELSE IF \E r \in store : r.id = t
        THEN \* store.add: a record with this key exists (ConstraintError)
             [ok |-> FALSE, error |-> "ConstraintError",
              store |-> store, task |-> newTask]
        ELSE [ok |-> TRUE, error |-> "", store |-> store \cup {newTask},
              task |-> newTask]

\* the read-time validation of one record (useIndexedDB.getTasks)
ValidateTask(task) ==
    LET c == IF "completed" \in DOMAIN task /\ task.completed \in BOOLEAN
             THEN task.completed ELSE FALSE
        p == IF "priority" \in DOMAIN task /\ task.priority # ""
             THEN task.priority ELSE "medium"
    IN  Spread(task, [completed |-> c, priority |-> p])

\* useIndexedDB.getTasks
getTasksLocal(store, dbState) ==
    IF dbState # "open" THEN <<>>
    ELSE SortById({ValidateTask(r) : r \in store})

\* useIndexedDB.updateTask
updateTaskLocal(store, dbState, id, updates, t) ==
    IF dbState # "open"
    THEN [ok |-> FALSE, error |-> "Database not initialized", store |-> store]
    ELSE IF ~\E r \in store : r.id = id
    THEN [ok |-> FALSE, error |-> "Task not found", store |-> store]
    ELSE LET task == CHOOSE r \in store : r.id = id
             updatedTask ==
                 Spread(Spread(task, updates),
                        [updatedAt |-> t, synced |-> FALSE])
         IN  [ok |-> TRUE, error |-> "",
              store |-> {r \in store : r.id # updatedTask.id}
                            \cup {updatedTask}]

\* a deleteTask that rejects when no record has the key
deleteTaskLocalNotFound(store, dbState, id) ==
    IF dbState # "open"
    THEN [ok |-> FALSE, error |-> "Database not initialized", store |-> store]
    ELSE IF ~\E r \in store : r.id = id
    THEN [ok |-> FALSE, error |-> "Task not found", store |-> store]
    ELSE [ok |-> TRUE, error |-> "", store |-> {r \in store : r.id # id}]

\* useIndexedDB.deleteTask
deleteTaskLocal(store, dbState, id) ==
    IF dbState # "open"
    THEN [ok |-> FALSE, error |-> "Database not initialized", store |-> store]
    ELSE [ok |-> TRUE, error |-> "", store |-> {r \in store : r.id # id}]

\* ------------------------------------------------- remote store (Express)
\* 5 * 1024 * 1024
MaxImageBytes == 5242880

\* imageSizeBytes > 5 * 1024 * 1024, where imageSizeBytes is the floating
\* point (imageData.data.length * 3) / 4; compared without the division.
ImageTooLarge(img) == DataLength(img) * 3 > 4 * MaxImageBytes

\* imageData.data.replace(/^data:image\/[a-z]+;base64,/, "")
StripPrefix(img) == [img EXCEPT !.prefix = 0]

\* image || (photo ? {data: photo} : null), of POST /api/tasks
PostImageData(body) ==
    IF "image" \in DOMAIN body /\ body.image # NoImage THEN body.image
    ELSE IF "photo" \in DOMAIN body THEN body.photo
    ELSE NoImage

\* app.post("/api/tasks")
PostTask(tasks, body, t) ==
    IF ~HasTitle(body)
    THEN [status |-> 400, tasks |-> tasks, task |-> [id |-> t]]
    ELSE IF DataLength(PostImageData(body)) > 0
            /\ ImageTooLarge(PostImageData(body))
    THEN [status |-> 400, tasks |-> tasks, task |-> [id |-> t]]
    ELSE LET task == [id |-> t,
                      title |-> body.title,
                      completed |-> FALSE,
                      priority |-> IF "priority" \in DOMAIN body
                                   THEN body.priority ELSE "medium",
                      image |-> StripPrefix(PostImageData(body)),
                      updatedAt |-> t,
                      synced |-> TRUE]
         IN  [status |-> 201, tasks |-> Append(tasks, task), task |-> task]

\* the image of a PUT body: undefined is modelled by has = FALSE
PutImageData(body) ==
    IF "image" \in DOMAIN body THEN [has |-> TRUE, img |-> body.image]
    ELSE IF "photo" \in DOMAIN body THEN [has |-> TRUE, img |-> body.photo]
    ELSE [has |-> FALSE, img |-> NoImage]

\* the fields of the body are stored before the size of the image is checked
PutTaskStoresBeforeSizeCheck(tasks, id, body, t) ==
    LET taskIndex == FindIndex(tasks, id)
        imageData == PutImageData(body)
    IN  IF taskIndex = 0
        THEN [status |-> 404, tasks |-> tasks]
        ELSE LET existingTask == tasks[taskIndex]
                 fields == [f \in DOMAIN body
                                  \cap {"title", "completed", "priority"}
                            |-> body[f]]
                 tooLarge == /\ imageData.has
                             /\ DataLength(imageData.img) > 0
                             /\ ImageTooLarge(imageData.img)
                 processedImage ==
                     IF imageData.has /\ ~tooLarge
                     THEN StripPrefix(imageData.img)
                     ELSE existingTask.image
                 updatedTask ==
                     Spread(Spread(existingTask, fields),
                            [image |-> processedImage,
                             updatedAt |-> t,
                             synced |-> TRUE])
             IN  [status |-> IF tooLarge THEN 400 ELSE 200,
                  tasks |-> [tasks EXCEPT ![taskIndex] = updatedTask]]

\* app.put("/api/tasks/:id")
PutTask(tasks, id, body, t) ==
    LET taskIndex == FindIndex(tasks, id)
        imageData == PutImageData(body)
    IN  IF taskIndex = 0
        THEN [status |-> 404, tasks |-> tasks]
        ELSE IF imageData.has /\ DataLength(imageData.img) > 0
                /\ ImageTooLarge(imageData.img)
        THEN [status |-> 400, tasks |-> tasks]
        ELSE LET existingTask == tasks[taskIndex]
                 fields == [f \in DOMAIN body
                                  \cap {"title", "completed", "priority"}
                            |-> body[f]]
                 processedImage ==
                     IF imageData.has THEN StripPrefix(imageData.img)
                     ELSE existingTask.image
                 updatedTask ==
                     Spread(Spread(existingTask, fields),
                            [image |-> processedImage,
                             updatedAt |-> t,
                             synced |-> TRUE])
             IN  [status |-> 200,
                  tasks |-> [tasks EXCEPT ![taskIndex] = updatedTask]]

\* app.delete("/api/tasks/:id")
DeleteTaskRoute(tasks, id) ==
    LET taskIndex == FindIndex(tasks, id)
    IN  IF taskIndex = 0
        THEN [status |-> 404, tasks |-> tasks]
        ELSE [status |-> 200,
              tasks |-> [i \in 1..(Len(tasks) - 1) |->
                            IF i < taskIndex THEN tasks[i] ELSE tasks[i + 1]]]

\* t => t.completed
IsCompleted(t) == Truthy(t, "completed")

\* every high priority task is counted, completed or not
IsHighAny(t) == "priority" \in DOMAIN t /\ t.priority = "high"

\* t => t.priority === "high" && !t.completed
IsHighOpen(t) ==
    "priority" \in DOMAIN t /\ t.priority = "high" /\ ~IsCompleted(t)

\* tasks.filter((t) => t.completed).length
CountCompleted(tasks) ==
    Cardinality({i \in 1..Len(tasks) : IsCompleted(tasks[i])})

\* tasks.filter((t) => t.priority === "high" && !t.completed).length
CountHighOpen(tasks) ==
    Cardinality({i \in 1..Len(tasks) : IsHighOpen(tasks[i])})

\* app.get("/api/stats")
StatsRoute(tasks) ==
    LET total == Len(tasks)
        completed == CountCompleted(tasks)
    IN  [total |-> total,
         completed |-> completed,
         pending |-> total - completed,
         highPriority |-> CountHighOpen(tasks)]

\* the local computation of useTaskSync.getStats (completionRate, a string
\* derived from completed and total, is left out)
LocalStats(tasks) ==
    LET total == Len(tasks)
        completed == CountCompleted(tasks)
        pending == total - completed
    IN  [total |-> total,
         completed |-> completed,
         pending |-> pending,
         highPriority |-> CountHighOpen(tasks)]

\* ------------------------------------------------------------- state
VARIABLES
    now,           \* Date.now(), on the client and on the server
    db,            \* useIndexedDB: "null" until the database is open
    local,         \* the records of the 'tasks' object store
    remote,        \* backend/index.js: let tasks = []
    isOnline,      \* useTaskSync state
    isSyncing,     \* useTaskSync state
    syncError,     \* useTaskSync state ("null" or a message)
    lastSyncTime,  \* useTaskSync state (-1 for null)
    sync,          \* the running syncWithServer calls
    ops,           \* the running addTask/updateTask/deleteTask/getTasks/getStats calls
    done,          \* the outcome of the call that resolved in the last step
    lastPass,      \* what the syncWithServer call that returned in the last step did
    mon,           \* history kept for a scenario (off in Spec)
    view,          \* the last committed render, where renders can lag
    isInitialized, \* App state: initAndLoad has been started
    lastManualSync, \* localStorage item lastManualSync in ms, -1: absent
    budget         \* the calls made and the passes started so far

vars == <<now, db, local, remote, isOnline, isSyncing, syncError,
          lastSyncTime, sync, ops, done, lastPass, mon, view,
          isInitialized, lastManualSync, budget>>

engine == <<isOnline, isSyncing, syncError, lastSyncTime>>

Slots == {1, 2}

\* the syncWithServer calls that can be running at a time
PassSlots == {1, 2}
Ids == 0..MaxClock

\* what addTask is called with: the spec's {title} and the form's payload
AddInputs ==
    {[title |-> "A"],
     [title |-> "B", priority |-> "high", completed |-> FALSE]}

\* what updateTask is called with: handleToggleComplete's payload
UpdateInputs == {[completed |-> TRUE]}

\* listed: the ids of unsyncedTasks; okIds / failIds: the records whose
\* remote push succeeded / failed; plainIds: the records pushed by no request
IdleSync == [pc |-> "idle", gate |-> FALSE, queue |-> <<>>, listed |-> {},
             okIds |-> {}, failIds |-> {}, plainIds |-> {}]

NoPass == [outcome |-> "none", listed |-> {}, okIds |-> {}, failIds |-> {},
           plainIds |-> {}]

IdleOp == [kind |-> "none", pc |-> "idle"]

NoOutcome == [kind |-> "none"]

MonOff == [name |-> "off"]

\* every state change is rendered before the next event
NoLag == [lag |-> FALSE]

InitWith(m) ==
    /\ now = 0
    /\ db = "null"
    /\ local = {}
    /\ remote = <<>>
    /\ isOnline \in BOOLEAN        \* useState(navigator.onLine)
    /\ isSyncing = FALSE
    /\ syncError = "null"
    /\ lastSyncTime = -1
    /\ sync = [p \in PassSlots |-> IdleSync]
    /\ ops = [s \in Slots |-> IdleOp]
    /\ done = NoOutcome
    /\ lastPass = NoPass
    /\ mon = m
    /\ view = IF m.name = "render"
              THEN [lag |-> TRUE, isOnline |-> isOnline, isSyncing |-> FALSE]
              ELSE NoLag
    /\ isInitialized = FALSE
    /\ lastManualSync = -1
    /\ budget = [calls |-> 0, passes |-> 0]

Init == InitWith(MonOff)

\* ------------------------------------------------------------- history
\* the round trip scenario: has the one addTask resolved, and how
ObserveRoundTrip(m, outcome) ==
    IF outcome.kind = "addTask"
    THEN [m EXCEPT !.phase = IF outcome.ok /\ outcome.remoteLeg = "created"
                              THEN "added" ELSE "other"]
    ELSE m

\* the deletion scenario: the ids whose deleteTask has resolved, kept when
\* the id was taken from an earlier millisecond (Date.now() cannot produce
\* it for a new record any more)
ObserveDeletion(m, outcome) ==
    IF outcome.kind = "deleteTask" /\ outcome.ok /\ outcome.id < outcome.at
    THEN [m EXCEPT !.ids = @ \cup {outcome.id}]
    ELSE m

\* the offline scenario: the ids of the records whose addTask resolved
\* without a remote create
ObserveOffline(m, outcome) ==
    IF outcome.kind = "addTask" /\ outcome.ok
           /\ outcome.remoteLeg \in {"skipped", "failed"}
    THEN [m EXCEPT !.ids = @ \cup {outcome.task.id}]
    ELSE m

ObserveOutcome(m, outcome) ==
    CASE m.name = "roundTrip" -> ObserveRoundTrip(m, outcome)
      [] m.name = "offline" -> ObserveOffline(m, outcome)
      [] m.name = "deletion" -> ObserveDeletion(m, outcome)
      [] OTHER -> m

\* the idempotence scenario: a pass that completed with no failed push may
\* be taken as the first of two passes in a row (the stores it left are
\* kept); the pass that returns next is the second.
ObservePass(m, pass, localAfter, remoteAfter) ==
    IF m.name # "idempotence" THEN {m}
    ELSE IF m.phase = "none" /\ pass.outcome = "completed"
            /\ pass.failIds = {}
    THEN {m, [m EXCEPT !.phase = "first", !.local = localAfter,
                       !.remote = remoteAfter]}
    ELSE IF m.phase = "first"
    THEN {[m EXCEPT !.phase = "second"]}
    ELSE {m}

\* a step in which no call resolves and no pass returns
Quiet ==
    /\ done' = NoOutcome
    /\ lastPass' = NoPass
    /\ UNCHANGED <<mon, view, isInitialized, lastManualSync>>

\* what the component renders
Rendered == [lag |-> TRUE, isOnline |-> isOnline, isSyncing |-> isSyncing]

\* The handlers and the calls of the hook are closures of a render: they read
\* the isOnline and isSyncing that render saw.  Where renders can lag, a
\* render is a step of its own (Render); elsewhere every state change is
\* rendered, and the handlers re-registered, before the next event.
Closure == IF view.lag THEN view ELSE Rendered

\* React re-renders the component and re-runs the effect that registers
\* the handlers (deps [syncWithServer])
Render ==
    /\ view.lag
    /\ view # Rendered
    /\ view' = Rendered
    /\ done' = NoOutcome
    /\ lastPass' = NoPass
    /\ UNCHANGED <<now, db, local, remote, engine, sync, ops, mon,
                   isInitialized, lastManualSync, budget>>

\* ------------------------------------------------------- environment
\* a millisecond passes
Tick ==
    /\ now < MaxClock
    /\ now' = now + 1
    /\ Quiet
    /\ UNCHANGED <<db, local, remote, engine, sync, ops, budget>>

\* useIndexedDB's mount effect: openDatabase succeeded, setDb(database)
initDatabase ==
    /\ db = "null"
    /\ db' = "open"
    /\ Quiet
    /\ UNCHANGED <<now, local, remote, engine, sync, ops, budget>>

\* useIndexedDB.clearAndReinitDB: db.close(), deleteDatabase, setDb(null),
\* open again, setDb(database); the reopening may fail
clearAndReinitDB ==
    /\ local' = {}
    /\ db' \in {"open", "failed"}

\* App's initialization effect once the database is open: initializeApp
\* resets the database on a first load or when the last cleanup is more
\* than 24 hours old (cleanupDue)
initializeApp ==
    /\ db = "open"
    /\ ~isInitialized
    /\ isInitialized' = TRUE
    /\ UNCHANGED lastManualSync
    /\ \E cleanupDue \in BOOLEAN :
           IF cleanupDue THEN clearAndReinitDB ELSE UNCHANGED <<db, local>>
    /\ done' = NoOutcome
    /\ lastPass' = NoPass
    /\ UNCHANGED <<now, remote, engine, sync, ops, mon, view, budget>>

\* the page is closed and loaded again: the state of the hooks starts
\* afresh, calls and passes in flight are gone, IndexedDB and the server
\* keep what they hold
Reload ==
    /\ db' = "null"
    /\ isOnline' \in BOOLEAN
    /\ isSyncing' = FALSE
    /\ syncError' = "null"
    /\ lastSyncTime' = -1
    /\ sync' = [p \in PassSlots |-> IdleSync]
    /\ ops' = [s \in Slots |-> IdleOp]
    /\ isInitialized' = FALSE
    /\ UNCHANGED lastManualSync
    /\ done' = NoOutcome
    /\ lastPass' = NoPass
    /\ UNCHANGED <<now, local, remote, mon, view, budget>>

\* A remote request answers only while the network is up; it may fail then too.
Answers(ok) == ok => isOnline

\* checkServerConnection of a closure that captured cOnline; ok is the
\* outcome of apiService.healthCheck()
checkServerConnection(cOnline, ok) == cOnline /\ ok

\* ------------------------------------------------- syncWithServer
\* the record of the call that starts: the first pass slot that is idle
FreeSlot ==
    CHOOSE p \in PassSlots :
        /\ sync[p].pc = "idle"
        /\ \A q \in PassSlots : sync[q].pc = "idle" => p <= q

\* The synchronous prefix of syncWithServer, called from a closure that
\* captured cOnline and cSyncing.
syncWithServer(cOnline, cSyncing) ==
    IF cSyncing \/ ~cOnline
    THEN UNCHANGED <<isSyncing, syncError, sync, budget>>
    ELSE /\ budget.passes < MaxPasses
         /\ \E p \in PassSlots : sync[p].pc = "idle"
         /\ budget' = [budget EXCEPT !.passes = @ + 1]
         /\ isSyncing' = TRUE
         /\ syncError' = "null"
         /\ sync' = [sync EXCEPT ![FreeSlot] = [IdleSync EXCEPT !.pc = "gate"]]

\* window 'online': setIsOnline(true); syncWithServer()
\* The handler is the closure of the render in which isOnline was false.
handleOnline ==
    /\ ~isOnline
    /\ isOnline' = TRUE
    /\ syncWithServer(Closure.isOnline, Closure.isSyncing)
    /\ Quiet
    /\ UNCHANGED <<now, db, local, remote, lastSyncTime, ops>>

\* window 'offline': setIsOnline(false)
handleOffline ==
    /\ isOnline
    /\ isOnline' = FALSE
    /\ Quiet
    /\ UNCHANGED <<now, db, local, remote, isSyncing, syncError,
                   lastSyncTime, sync, ops, budget>>

\* service worker message {type: 'BACKGROUND_SYNC'}
handleSWMessage ==
    /\ syncWithServer(Closure.isOnline, Closure.isSyncing)
    /\ Quiet
    /\ UNCHANGED <<now, db, local, remote, isOnline, lastSyncTime, ops>>

\* the caller of the hook invokes syncWithServer (syncNow)
syncNow ==
    /\ syncWithServer(Closure.isOnline, Closure.isSyncing)
    /\ Quiet
    /\ UNCHANGED <<now, db, local, remote, isOnline, lastSyncTime, ops>>

\* the clock advances by the cooldown at every Tick
TickMs == 3000

\* Date.now()
DateNow == now * TickMs

ManualSyncCooldown == 3000

\* App: the sync button (rendered while isOnline) and the shake effect
SkipManualSync == UNCHANGED <<isSyncing, syncError, sync, budget, lastManualSync>>

handleManualSync ==
    /\ Closure.isOnline
    /\ done' = NoOutcome
    /\ lastPass' = NoPass
    /\ UNCHANGED <<now, db, local, remote, isOnline, lastSyncTime, ops, mon,
                   view, isInitialized>>
    /\ IF Closure.isSyncing
       THEN SkipManualSync
       ELSE IF lastManualSync # -1 /\ DateNow - lastManualSync < ManualSyncCooldown
       THEN SkipManualSync
       ELSE /\ syncWithServer(Closure.isOnline, Closure.isSyncing)
            /\ lastManualSync' = DateNow

\* isSyncing is reset on normal completion only
EndPassResetOnSuccess(p, s, outcome) ==
    /\ sync' = [sync EXCEPT ![p] = IdleSync]
    /\ isSyncing' = (outcome # "completed")
    /\ lastPass' = [outcome |-> outcome, listed |-> s.listed,
                    okIds |-> s.okIds, failIds |-> s.failIds,
                    plainIds |-> s.plainIds]
    /\ done' = NoOutcome
    /\ mon' \in ObservePass(mon, lastPass', local', remote')
    /\ UNCHANGED <<view, isInitialized, lastManualSync>>

\* the pass returns: finally { setIsSyncing(false) }
EndPass(p, s, outcome) ==
    /\ sync' = [sync EXCEPT ![p] = IdleSync]
    /\ isSyncing' = FALSE
    /\ lastPass' = [outcome |-> outcome, listed |-> s.listed,
                    okIds |-> s.okIds, failIds |-> s.failIds,
                    plainIds |-> s.plainIds]
    /\ done' = NoOutcome
    /\ mon' \in ObservePass(mon, lastPass', local', remote')
    /\ UNCHANGED <<view, isInitialized, lastManualSync>>

\* the pass goes on
Continue(p, s) ==
    /\ sync' = [sync EXCEPT ![p] = s]
    /\ Quiet
    /\ UNCHANGED <<isSyncing, lastSyncTime>>

\* const serverAvailable = await checkServerConnection()
SyncGate(p) ==
    /\ sync[p].pc = "gate"
    /\ UNCHANGED <<now, db, local, remote, isOnline, syncError,
                   lastSyncTime, ops, budget>>
    /\ \E ok \in BOOLEAN :
        /\ Answers(ok)
        /\ IF checkServerConnection(TRUE, ok)
           THEN /\ sync' = [sync EXCEPT ![p].pc = "list", ![p].gate = TRUE]
                /\ Quiet
                /\ UNCHANGED isSyncing
           ELSE EndPass(p, sync[p], "gateFailed")

\* const localTasks = await getTasksLocal(); unsyncedTasks = filter(!synced)
SyncList(p) ==
    /\ sync[p].pc = "list"
    /\ LET localTasks == getTasksLocal(local, db)
           unsyncedTasks == SelectSeq(localTasks, LAMBDA t : ~Truthy(t, "synced"))
       IN  sync' = [sync EXCEPT
                       ![p].pc = IF Len(unsyncedTasks) > 0 THEN "push" ELSE "fetch",
                       ![p].queue = unsyncedTasks,
                       ![p].listed = {unsyncedTasks[i].id : i \in 1..Len(unsyncedTasks)}]
    /\ Quiet
    /\ UNCHANGED <<now, db, local, remote, engine, ops, budget>>

\* the fields syncWithServer sends for a task
PushBody(task) ==
    [f \in DOMAIN task \cap {"title", "completed", "priority", "image"}
       |-> task[f]]

\* the loop moves to the next record, or the pass completes
NextRecord(p, s) ==
    IF Len(s.queue) > 1
    THEN Continue(p, [s EXCEPT !.pc = "push", !.queue = Tail(s.queue)])
    ELSE /\ lastSyncTime' = now
         /\ EndPass(p, s, "completed")

\* if (task.isNew) await apiService.createTask({...})
SyncPushNew(p) ==
    /\ sync[p].pc = "push"
    /\ Truthy(Head(sync[p].queue), "isNew")
    /\ UNCHANGED <<now, db, local, isOnline, syncError, ops, budget>>
    /\ \E ok \in BOOLEAN :
        LET task == Head(sync[p].queue)
            res == PostTask(remote, PushBody(task), now)
        IN  /\ Answers(ok)
            /\ ok => Len(remote) < MaxRemote
            /\ IF ok /\ res.status = 201
               THEN /\ remote' = res.tasks
                    /\ Continue(p, [sync[p] EXCEPT !.pc = "mark",
                                             !.okIds = @ \cup {task.id}])
               ELSE /\ UNCHANGED remote
                    /\ NextRecord(p, [sync[p] EXCEPT !.failIds = @ \cup {task.id}])

\* the write-back stores the listed copy of the record with the flags set
SyncMarkNewPutsListedCopy(p) ==
    /\ sync[p].pc = "mark"
    /\ UNCHANGED <<now, db, remote, isOnline, syncError, ops, budget>>
    /\ LET task == Head(sync[p].queue)
           res == updateTaskLocal(local, db, task.id,
                                  Spread(task, [serverCreated |-> TRUE,
                                                synced |-> TRUE]), now)
       IN  /\ local' = res.store
           /\ NextRecord(p, sync[p])

\* await updateTaskLocal(task.id, {serverCreated: true, synced: true})
SyncMarkNew(p) ==
    /\ sync[p].pc = "mark"
    /\ UNCHANGED <<now, db, remote, isOnline, syncError, ops, budget>>
    /\ LET task == Head(sync[p].queue)
           res == updateTaskLocal(local, db, task.id,
                                  [serverCreated |-> TRUE, synced |-> TRUE], now)
       IN  /\ local' = res.store
           /\ NextRecord(p, sync[p])

\* else branch: no record carries serverId, so apiService.updateTask is
\* not called; await updateTaskLocal(task.id, {synced: true})
SyncMarkExisting(p) ==
    /\ sync[p].pc = "push"
    /\ ~Truthy(Head(sync[p].queue), "isNew")
    /\ UNCHANGED <<now, db, remote, isOnline, syncError, ops, budget>>
    /\ LET task == Head(sync[p].queue)
           res == updateTaskLocal(local, db, task.id, [synced |-> TRUE], now)
       IN  /\ local' = res.store
           /\ NextRecord(p, [sync[p] EXCEPT !.plainIds = @ \cup {task.id}])

\* unsyncedTasks is empty: await apiService.getTasks()
SyncFetch(p) ==
    /\ sync[p].pc = "fetch"
    /\ UNCHANGED <<now, db, local, remote, isOnline, ops, budget>>
    /\ \E ok \in BOOLEAN :
        /\ Answers(ok)
        /\ IF ok
           THEN /\ lastSyncTime' = now
                /\ UNCHANGED syncError
                /\ EndPass(p, sync[p], "completed")
           ELSE /\ syncError' = "request failed"
                /\ UNCHANGED lastSyncTime
                /\ EndPass(p, sync[p], "error")

Pass ==
    \E p \in PassSlots :
        \/ SyncGate(p)
        \/ SyncList(p)
        \/ SyncPushNew(p)
        \/ SyncMarkNew(p)
        \/ SyncMarkExisting(p)
        \/ SyncFetch(p)

\* ------------------------------------------------- the CRUD calls
\* the call in slot s resolves or rejects with this outcome
Resolve(s, outcome) ==
    /\ ops' = [ops EXCEPT ![s] = IdleOp]
    /\ done' = outcome
    /\ lastPass' = NoPass
    /\ mon' = ObserveOutcome(mon, outcome)
    /\ UNCHANGED <<view, isInitialized, lastManualSync>>

\* the call in slot s awaits its next request
Await(s, o) ==
    /\ ops' = [ops EXCEPT ![s] = o]
    /\ Quiet

\* a remote request has been issued
Sent(o) == [o EXCEPT !.reqs = @ + 1]

\* ---- addTask(taskData)
AddOutcome(o, ok, task, remoteLeg) ==
    [kind |-> "addTask", ok |-> ok, task |-> task, data |-> o.data,
     cOnline |-> o.cOnline, remoteLeg |-> remoteLeg, reqs |-> o.reqs,
     serverTask |-> o.serverTask, gate |-> o.gate, dbOpen |-> o.dbOpen,
     inserted |-> o.inserted]

\* const newTask = await addTaskLocal({...taskData, synced: false, isNew: true})
addTask(s, taskData) ==
    /\ ops[s] = IdleOp
    /\ budget.calls < MaxCalls
    /\ budget' = [budget EXCEPT !.calls = @ + 1]
    /\ UNCHANGED <<now, db, remote, engine, sync>>
    /\ LET res == addTaskLocal(local, db,
                      Spread(taskData, [synced |-> FALSE, isNew |-> TRUE]), now)
           o == [kind |-> "addTask", pc |-> "health", data |-> taskData,
                 cOnline |-> Closure.isOnline, newTask |-> res.task,
                 serverTask |-> [id |-> -1], reqs |-> 0, gate |-> FALSE,
                 dbOpen |-> db = "open", inserted |-> res.ok]
       IN  /\ local' = res.store
           /\ IF ~res.ok
              THEN Resolve(s, AddOutcome(o, FALSE, res.task, "skipped"))
              ELSE IF ~o.cOnline
              THEN Resolve(s, AddOutcome(o, TRUE, res.task, "skipped"))
              ELSE Await(s, o)

\* const serverAvailable = await checkServerConnection()
AddHealth(s) ==
    /\ ops[s].kind = "addTask" /\ ops[s].pc = "health"
    /\ UNCHANGED <<now, db, local, remote, engine, sync, budget>>
    /\ \E ok \in BOOLEAN :
        /\ Answers(ok)
        /\ LET o == Sent(ops[s])
           IN  IF checkServerConnection(o.cOnline, ok)
               THEN Await(s, [o EXCEPT !.pc = "create", !.gate = TRUE])
               ELSE Resolve(s, AddOutcome(o, TRUE, o.newTask, "skipped"))

\* a failed createTask is thrown on to the caller of addTask
AddCreateRethrows(s) ==
    /\ ops[s].kind = "addTask" /\ ops[s].pc = "create"
    /\ UNCHANGED <<now, db, local, engine, sync, budget>>
    /\ \E ok \in BOOLEAN :
        LET o == Sent(ops[s])
            res == PostTask(remote, o.data, now)
        IN  /\ Answers(ok)
            /\ ok => Len(remote) < MaxRemote
            /\ IF ok /\ res.status = 201
               THEN /\ remote' = res.tasks
                    /\ Await(s, [o EXCEPT !.pc = "delete",
                                          !.serverTask = res.task])
               ELSE /\ UNCHANGED remote
                    /\ Resolve(s, AddOutcome(o, FALSE, o.newTask, "failed"))

\* const serverTask = await apiService.createTask(taskData)
AddCreate(s) ==
    /\ ops[s].kind = "addTask" /\ ops[s].pc = "create"
    /\ UNCHANGED <<now, db, local, engine, sync, budget>>
    /\ \E ok \in BOOLEAN :
        LET o == Sent(ops[s])
            res == PostTask(remote, o.data, now)
        IN  /\ Answers(ok)
            /\ ok => Len(remote) < MaxRemote
            /\ IF ok /\ res.status = 201
               THEN /\ remote' = res.tasks
                    /\ Await(s, [o EXCEPT !.pc = "delete",
                                          !.serverTask = res.task])
               ELSE /\ UNCHANGED remote
                    /\ Resolve(s, AddOutcome(o, TRUE, o.newTask, "failed"))

\* await deleteTaskLocal(newTask.id)
AddDelete(s) ==
    /\ ops[s].kind = "addTask" /\ ops[s].pc = "delete"
    /\ UNCHANGED <<now, db, remote, engine, sync, budget>>
    /\ LET o == ops[s]
           res == deleteTaskLocal(local, db, o.newTask.id)
       IN  /\ local' = res.store
           /\ IF res.ok
              THEN Await(s, [o EXCEPT !.pc = "final"])
              ELSE Resolve(s, AddOutcome(o, TRUE, o.newTask, "created"))

\* const finalTask = await addTaskLocal({...serverTask, synced: true,
\*                                      serverCreated: true, isNew: false})
AddFinal(s) ==
    /\ ops[s].kind = "addTask" /\ ops[s].pc = "final"
    /\ UNCHANGED <<now, db, remote, engine, sync, budget>>
    /\ LET o == ops[s]
           res == addTaskLocal(local, db,
                      Spread(o.serverTask,
                             [synced |-> TRUE, serverCreated |-> TRUE,
                              isNew |-> FALSE]), now)
       IN  /\ local' = res.store
           /\ IF res.ok
              THEN Resolve(s, AddOutcome(o, TRUE, res.task, "created"))
              ELSE Resolve(s, AddOutcome(o, TRUE, o.newTask, "created"))

\* ---- updateTask(id, taskData)
UpdateOutcome(o, ok, remoteLeg, localOk) ==
    [kind |-> "updateTask", ok |-> ok, id |-> o.id, data |-> o.data,
     cOnline |-> o.cOnline, remoteLeg |-> remoteLeg, localOk |-> localOk,
     reqs |-> o.reqs, gate |-> o.gate, wasLocal |-> o.wasLocal,
     dbOpen |-> o.dbOpen]

\* Fallback: await updateTaskLocal(id, {...taskData, synced: false})
UpdateFallback(s, o, remoteLeg) ==
    LET res == updateTaskLocal(local, db, o.id,
                               Spread(o.data, [synced |-> FALSE]), now)
    IN  /\ local' = res.store
        /\ Resolve(s, UpdateOutcome(o, res.ok, remoteLeg, res.ok))

updateTask(s, id, taskData) ==
    /\ ops[s] = IdleOp
    /\ budget.calls < MaxCalls
    /\ budget' = [budget EXCEPT !.calls = @ + 1]
    /\ UNCHANGED <<now, db, remote, engine, sync>>
    /\ LET o == [kind |-> "updateTask", pc |-> "remote", id |-> id,
                 data |-> taskData, cOnline |-> Closure.isOnline, reqs |-> 0,
                 gate |-> FALSE, wasLocal |-> \E r \in local : r.id = id,
                 dbOpen |-> db = "open"]
       IN  IF o.cOnline
           THEN /\ UNCHANGED local
                /\ Await(s, o)
           ELSE UpdateFallback(s, o, "skipped")

\* a failed apiService.updateTask is thrown on to the caller of updateTask
UpdateRemoteRethrows(s) ==
    /\ ops[s].kind = "updateTask" /\ ops[s].pc = "remote"
    /\ UNCHANGED <<now, db, local, engine, sync, budget>>
    /\ \E ok \in BOOLEAN :
        LET o == Sent(ops[s])
            res == PutTask(remote, o.id, o.data, now)
        IN  /\ Answers(ok)
            /\ IF ok /\ res.status = 200
               THEN /\ remote' = res.tasks
                    /\ Await(s, [o EXCEPT !.pc = "localSynced"])
               ELSE /\ UNCHANGED remote
                    /\ Resolve(s, UpdateOutcome(o, FALSE, "failed", FALSE))

\* await apiService.updateTask(id, taskData)
UpdateRemote(s) ==
    /\ ops[s].kind = "updateTask" /\ ops[s].pc = "remote"
    /\ UNCHANGED <<now, db, local, engine, sync, budget>>
    /\ \E ok \in BOOLEAN :
        LET o == Sent(ops[s])
            res == PutTask(remote, o.id, o.data, now)
        IN  /\ Answers(ok)
            /\ IF ok /\ res.status = 200
               THEN /\ remote' = res.tasks
                    /\ Await(s, [o EXCEPT !.pc = "localSynced"])
               ELSE /\ UNCHANGED remote
                    /\ Await(s, [o EXCEPT !.pc = "local"])

\* await updateTaskLocal(id, {...taskData, synced: true}), its failure swallowed
UpdateLocalSynced(s) ==
    /\ ops[s].kind = "updateTask" /\ ops[s].pc = "localSynced"
    /\ UNCHANGED <<now, db, remote, engine, sync, budget>>
    /\ LET o == ops[s]
           res == updateTaskLocal(local, db, o.id,
                                  Spread(o.data, [synced |-> TRUE]), now)
       IN  /\ local' = res.store
           /\ Resolve(s, UpdateOutcome(o, TRUE, "updated", res.ok))

UpdateLocal(s) ==
    /\ ops[s].kind = "updateTask" /\ ops[s].pc = "local"
    /\ UNCHANGED <<now, db, remote, engine, sync, budget>>
    /\ UpdateFallback(s, ops[s], "failed")

\* ---- deleteTask(id)
DeleteOutcome(o, ok) ==
    [kind |-> "deleteTask", ok |-> ok, id |-> o.id, cOnline |-> o.cOnline,
     remoteLeg |-> o.remoteLeg, reqs |-> o.reqs, gate |-> o.gate,
     wasLocal |-> o.wasLocal, dbOpen |-> o.dbOpen, at |-> now]

\* await deleteTaskLocal(id)
DeleteLocally(s, o) ==
    LET res == deleteTaskLocal(local, db, o.id)
    IN  /\ local' = res.store
        /\ Resolve(s, DeleteOutcome(o, res.ok))

deleteTask(s, id) ==
    /\ ops[s] = IdleOp
    /\ budget.calls < MaxCalls
    /\ budget' = [budget EXCEPT !.calls = @ + 1]
    /\ UNCHANGED <<now, db, remote, engine, sync>>
    /\ LET o == [kind |-> "deleteTask", pc |-> "health", id |-> id,
                 cOnline |-> Closure.isOnline, reqs |-> 0, gate |-> FALSE,
                 remoteLeg |-> "skipped",
                 wasLocal |-> \E r \in local : r.id = id, dbOpen |-> db = "open"]
       IN  IF o.cOnline
           THEN /\ UNCHANGED local
                /\ Await(s, o)
           ELSE DeleteLocally(s, o)

DeleteHealth(s) ==
    /\ ops[s].kind = "deleteTask" /\ ops[s].pc = "health"
    /\ UNCHANGED <<now, db, local, remote, engine, sync, budget>>
    /\ \E ok \in BOOLEAN :
        /\ Answers(ok)
        /\ LET o == Sent(ops[s])
           IN  IF checkServerConnection(o.cOnline, ok)
               THEN Await(s, [o EXCEPT !.pc = "remote", !.gate = TRUE])
               ELSE Await(s, [o EXCEPT !.pc = "local"])

\* a failed apiService.deleteTask ends the call, the local record kept
DeleteRemoteGivesUp(s) ==
    /\ ops[s].kind = "deleteTask" /\ ops[s].pc = "remote"
    /\ UNCHANGED <<now, db, local, engine, sync, budget>>
    /\ \E ok \in BOOLEAN :
        LET o == Sent(ops[s])
            res == DeleteTaskRoute(remote, o.id)
            good == ok /\ res.status = 200
        IN  /\ Answers(ok)
            /\ remote' = IF good THEN res.tasks ELSE remote
            /\ IF good
               THEN Await(s, [o EXCEPT !.pc = "local", !.remoteLeg = "deleted"])
               ELSE Resolve(s, DeleteOutcome([o EXCEPT !.remoteLeg = "failed"],
                                             TRUE))

\* await apiService.deleteTask(id), its failure swallowed
DeleteRemote(s) ==
    /\ ops[s].kind = "deleteTask" /\ ops[s].pc = "remote"
    /\ UNCHANGED <<now, db, local, engine, sync, budget>>
    /\ \E ok \in BOOLEAN :
        LET o == Sent(ops[s])
            res == DeleteTaskRoute(remote, o.id)
            good == ok /\ res.status = 200
        IN  /\ Answers(ok)
            /\ remote' = IF good THEN res.tasks ELSE remote
            /\ Await(s, [o EXCEPT !.pc = "local",
                                  !.remoteLeg = IF good THEN "deleted"
                                                ELSE "failed"])

DeleteLocal(s) ==
    /\ ops[s].kind = "deleteTask" /\ ops[s].pc = "local"
    /\ UNCHANGED <<now, db, remote, engine, sync, budget>>
    /\ DeleteLocally(s, ops[s])

\* ---- getTasks()
GetOutcome(o, tasks, source) ==
    [kind |-> "getTasks", ok |-> TRUE, tasks |-> tasks, source |-> source,
     cOnline |-> o.cOnline, cSyncing |-> o.cSyncing, reqs |-> o.reqs,
     localTasks |-> o.localTasks, gate |-> o.gate, dbOpen |-> o.dbOpen]

\* every unsynced local record is appended to the server's list
pendingLocalTasksAllUnsynced(localTasks, serverTasks) ==
    SelectSeq(localTasks, LAMBDA localTask : ~Truthy(localTask, "synced"))

\* localTasks.filter(...) of getTasks
pendingLocalTasks(localTasks, serverTasks) ==
    SelectSeq(localTasks,
              LAMBDA localTask :
                  /\ ~Truthy(localTask, "synced")
                  /\ ~Truthy(localTask, "serverCreated")
                  /\ ~\E i \in 1..Len(serverTasks) :
                         serverTasks[i].title = localTask.title)

\* a non-empty server list is returned as it is
MergedTasksServerOnly(localTasks, serverTasks) ==
    IF Len(serverTasks) > 0 THEN serverTasks ELSE localTasks

\* what getTasks returns once apiService.getTasks() has answered
MergedTasks(localTasks, serverTasks) ==
    IF Len(serverTasks) > 0
    THEN serverTasks \o pendingLocalTasks(localTasks, serverTasks)
    ELSE localTasks

getTasks(s) ==
    /\ ops[s] = IdleOp
    /\ budget.calls < MaxCalls
    /\ budget' = [budget EXCEPT !.calls = @ + 1]
    /\ UNCHANGED <<now, db, local, remote, engine, sync>>
    /\ LET o == [kind |-> "getTasks", pc |-> "health",
                 cOnline |-> Closure.isOnline,
                 cSyncing |-> Closure.isSyncing, reqs |-> 0, gate |-> FALSE,
                 localTasks |-> getTasksLocal(local, db),
                 dbOpen |-> db = "open"]
       IN  IF o.cOnline /\ ~o.cSyncing
           THEN Await(s, o)
           ELSE Resolve(s, GetOutcome(o, o.localTasks, "local"))

GetHealth(s) ==
    /\ ops[s].kind = "getTasks" /\ ops[s].pc = "health"
    /\ UNCHANGED <<now, db, local, remote, engine, sync, budget>>
    /\ \E ok \in BOOLEAN :
        /\ Answers(ok)
        /\ LET o == Sent(ops[s])
           IN  IF checkServerConnection(o.cOnline, ok)
               THEN Await(s, [o EXCEPT !.pc = "remote", !.gate = TRUE])
               ELSE Resolve(s, GetOutcome(o, o.localTasks, "local"))

\* a failed apiService.getTasks() makes getTasks return an empty list
GetRemoteEmptyOnFailure(s) ==
    /\ ops[s].kind = "getTasks" /\ ops[s].pc = "remote"
    /\ UNCHANGED <<now, db, local, remote, engine, sync, budget>>
    /\ \E ok \in BOOLEAN :
        /\ Answers(ok)
        /\ LET o == Sent(ops[s])
           IN  IF ok
               THEN Resolve(s, GetOutcome(o, MergedTasks(o.localTasks, remote),
                                          IF Len(remote) > 0 THEN "remote"
                                          ELSE "local"))
               ELSE Resolve(s, GetOutcome(o, <<>>, "local"))

\* const serverTasks = await apiService.getTasks()
GetRemote(s) ==
    /\ ops[s].kind = "getTasks" /\ ops[s].pc = "remote"
    /\ UNCHANGED <<now, db, local, remote, engine, sync, budget>>
    /\ \E ok \in BOOLEAN :
        /\ Answers(ok)
        /\ LET o == Sent(ops[s])
           IN  IF ok
               THEN Resolve(s, GetOutcome(o, MergedTasks(o.localTasks, remote),
                                          IF Len(remote) > 0 THEN "remote"
                                          ELSE "local"))
               ELSE Resolve(s, GetOutcome(o, o.localTasks, "local"))

\* ---- getStats()
StatsOutcome(o, stats, source, tasks) ==
    [kind |-> "getStats", ok |-> TRUE, stats |-> stats, source |-> source,
     of |-> tasks, cOnline |-> o.cOnline, reqs |-> o.reqs, gate |-> o.gate,
     dbOpen |-> o.dbOpen]

\* const tasks = await getTasksLocal(); ... return {total, completed, ...}
StatsLocally(s, o) ==
    LET tasks == getTasksLocal(local, db)
    IN  Resolve(s, StatsOutcome(o, LocalStats(tasks), "local", tasks))

getStats(s) ==
    /\ ops[s] = IdleOp
    /\ budget.calls < MaxCalls
    /\ budget' = [budget EXCEPT !.calls = @ + 1]
    /\ UNCHANGED <<now, db, local, remote, engine, sync>>
    /\ LET o == [kind |-> "getStats", pc |-> "health", cOnline |-> Closure.isOnline,
                 reqs |-> 0, gate |-> FALSE, dbOpen |-> db = "open"]
       IN  IF o.cOnline
           THEN Await(s, o)
           ELSE StatsLocally(s, o)

StatsHealth(s) ==
    /\ ops[s].kind = "getStats" /\ ops[s].pc = "health"
    /\ UNCHANGED <<now, db, local, remote, engine, sync, budget>>
    /\ \E ok \in BOOLEAN :
        /\ Answers(ok)
        /\ LET o == Sent(ops[s])
           IN  IF checkServerConnection(o.cOnline, ok)
               THEN Await(s, [o EXCEPT !.pc = "remote", !.gate = TRUE])
               ELSE StatsLocally(s, o)

\* return await apiService.getStats()
StatsRemote(s) ==
    /\ ops[s].kind = "getStats" /\ ops[s].pc = "remote"
    /\ UNCHANGED <<now, db, local, remote, engine, sync, budget>>
    /\ \E ok \in BOOLEAN :
        /\ Answers(ok)
        /\ LET o == Sent(ops[s])
           IN  IF ok
               THEN Resolve(s, StatsOutcome(o, StatsRoute(remote), "remote", remote))
               ELSE StatsLocally(s, o)

\* ------------------------------------------------------ specification
Invoke(s) ==
    \/ \E taskData \in AddInputs : addTask(s, taskData)
    \/ \E id \in Ids, taskData \in UpdateInputs : updateTask(s, id, taskData)
    \/ \E id \in Ids : deleteTask(s, id)
    \/ getTasks(s)
    \/ getStats(s)

Step(s) ==
    \/ AddHealth(s)
    \/ AddCreate(s)
    \/ AddDelete(s)
    \/ AddFinal(s)
    \/ UpdateRemote(s)
    \/ UpdateLocalSynced(s)
    \/ UpdateLocal(s)
    \/ DeleteHealth(s)
    \/ DeleteRemote(s)
    \/ DeleteLocal(s)
    \/ GetHealth(s)
    \/ GetRemote(s)
    \/ StatsHealth(s)
    \/ StatsRemote(s)

Environment ==
    \/ Tick
    \/ initDatabase
    \/ handleOnline
    \/ handleOffline
    \/ handleSWMessage
    \/ syncNow

\* the hook's interface is called one call at a time (slot 1)
Next ==
    \/ Environment
    \/ Pass
    \/ Invoke(1)
    \/ Step(1)

Spec == Init /\ [][Next]_vars

\* no pass is running / no call is in flight
NoPassRunning == \A p \in PassSlots : sync[p].pc = "idle"

NoCallRunning == ops[1] = IdleOp

\* ---- tasks are added, and reconciliation passes run
AddSteps(s) ==
    \/ AddHealth(s)
    \/ AddCreate(s)
    \/ AddDelete(s)
    \/ AddFinal(s)

InitOffline == InitWith([name |-> "offline", ids |-> {}])

NextOffline ==
    \/ Environment
    \/ Pass
    \/ \E taskData \in AddInputs : addTask(1, taskData)
    \/ AddSteps(1)

SpecOffline == InitOffline /\ [][NextOffline]_vars

\* ---- one addTask({title: "A"}) on an empty system, then passes and getTasks
InitRoundTrip == InitWith([name |-> "roundTrip", phase |-> "start"])

\* the one addTask call, made while no pass is running
AddOnce ==
    /\ mon.phase = "start"
    /\ NoPassRunning
    /\ addTask(1, [title |-> "A"])

\* a pass is started once the addTask call has returned
SyncAfterAdd ==
    /\ mon.phase # "start"
    /\ syncNow

BackgroundSyncAfterAdd ==
    /\ mon.phase # "start"
    /\ handleSWMessage

NextRoundTrip ==
    \/ Tick
    \/ initDatabase
    \/ handleOnline
    \/ handleOffline
    \/ AddOnce
    \/ AddSteps(1)
    \/ SyncAfterAdd
    \/ BackgroundSyncAfterAdd
    \/ Pass
    \/ getTasks(1)
    \/ GetHealth(1)
    \/ GetRemote(1)

SpecRoundTrip == InitRoundTrip /\ [][NextRoundTrip]_vars

\* ---- two passes in a row: between the return of the first and the return
\* of the second no call runs and connectivity does not change; in this
\* scenario a call and a pass never overlap
InitIdempotence ==
    InitWith([name |-> "idempotence", phase |-> "none",
              local |-> {}, remote |-> <<>>])

Undisturbed == mon.phase # "first"

NextIdempotence ==
    \/ Tick
    \/ Undisturbed /\ initDatabase
    \/ Undisturbed /\ handleOnline
    \/ Undisturbed /\ handleOffline
    \/ Undisturbed /\ NoPassRunning
           /\ \E taskData \in AddInputs : addTask(1, taskData)
    \/ Undisturbed /\ NoPassRunning /\ AddSteps(1)
    \/ NoCallRunning /\ handleSWMessage
    \/ NoCallRunning /\ syncNow
    \/ Pass

SpecIdempotence == InitIdempotence /\ [][NextIdempotence]_vars

\* ---- tasks are added, deleted and listed
InitDeletion == InitWith([name |-> "deletion", ids |-> {}])

NextDeletion ==
    \/ Environment
    \/ Pass
    \/ addTask(1, [title |-> "A"])
    \/ AddSteps(1)
    \/ \E id \in Ids : deleteTask(1, id)
    \/ DeleteHealth(1)
    \/ DeleteRemote(1)
    \/ DeleteLocal(1)
    \/ getTasks(1)
    \/ GetHealth(1)
    \/ GetRemote(1)

SpecDeletion == InitDeletion /\ [][NextDeletion]_vars

\* ---- getStats over stores that already hold tasks
Priorities == {"high", "medium"}

\* a record of the local store: as addTask stored it, or completed since
LocalRecords ==
    {[id |-> i, title |-> "A", updatedAt |-> i, synced |-> FALSE,
      isNew |-> TRUE] : i \in Ids}
    \cup {[id |-> i, title |-> "B", completed |-> c, priority |-> p,
           updatedAt |-> i, synced |-> FALSE, isNew |-> TRUE] :
              i \in Ids, c \in BOOLEAN, p \in Priorities}

\* the object store holds one record per key
LocalCollections ==
    {S \in SUBSET LocalRecords : \A a, b \in S : a.id = b.id => a = b}

\* a task of the server's array: as POST created it, or completed by a PUT
RemoteRecord(i, c, p) ==
    [id |-> i, title |-> "B", completed |-> c, priority |-> p,
     image |-> NoImage, updatedAt |-> i, synced |-> TRUE]

RemoteCollections ==
    UNION {{[i \in 1..n |-> RemoteRecord(i - 1, f[i][1], f[i][2])] :
               f \in [1..n -> BOOLEAN \X Priorities]} : n \in 0..MaxRemote}

InitStats ==
    /\ now = MaxClock
    /\ db = "open"
    /\ local \in LocalCollections
    /\ remote \in RemoteCollections
    /\ isOnline \in BOOLEAN
    /\ isSyncing = FALSE
    /\ syncError = "null"
    /\ lastSyncTime = -1
    /\ sync = [p \in PassSlots |-> IdleSync]
    /\ ops = [s \in Slots |-> IdleOp]
    /\ done = NoOutcome
    /\ lastPass = NoPass
    /\ mon = MonOff
    /\ view = NoLag
    /\ isInitialized = FALSE
    /\ lastManualSync = -1
    /\ budget = [calls |-> 0, passes |-> 0]

NextStats ==
    \/ handleOnline
    \/ handleOffline
    \/ getStats(1)
    \/ StatsHealth(1)
    \/ StatsRemote(1)

SpecStats == InitStats /\ [][NextStats]_vars

\* ---- passes that run to their end, also when the local listing fails
\* await getTasksLocal() rejects (request.onerror / transaction.onerror):
\* catch (error) { setSyncError(error.message) } finally { ... }
SyncListFails(p) ==
    /\ sync[p].pc = "list"
    /\ syncError' = "listing failed"
    /\ EndPass(p, sync[p], "error")
    /\ UNCHANGED <<now, db, local, remote, isOnline, lastSyncTime, ops, budget>>

PassLive ==
    \/ Pass
    \/ \E p \in PassSlots : SyncListFails(p)

\* in this scenario a call and a pass never overlap
NextLive ==
    \/ Tick
    \/ initDatabase
    \/ handleOnline
    \/ handleOffline
    \/ NoCallRunning /\ handleSWMessage
    \/ NoCallRunning /\ syncNow
    \/ PassLive
    \/ NoPassRunning /\ addTask(1, [title |-> "A"])
    \/ NoPassRunning /\ AddSteps(1)

\* every awaited call of a running pass eventually returns or fails
SpecLive == Init /\ [][NextLive]_vars /\ WF_vars(PassLive)

\* ---- calls of the hook's interface while connectivity changes; no pass
\* is started
NextCalls ==
    \/ Tick
    \/ initDatabase
    \/ handleOffline
    \/ handleOnline
    \/ Invoke(1)
    \/ Step(1)

SpecCalls == Init /\ [][NextCalls]_vars

\* ---- the local store serving the calls of any caller
\* what addTask of useIndexedDB is called with: a form's payload, and a
\* record that already carries an id or a synced flag (a server's task)
InsertInputs ==
    {[title |-> "A"]}
    \cup {[title |-> "A", synced |-> b] : b \in BOOLEAN}
    \cup {[title |-> "A", id |-> i] : i \in Ids}
    \cup {[title |-> "A", id |-> i, synced |-> b] : i \in Ids, b \in BOOLEAN}

\* the promise of a local store call settles
Settle(kind, res, input) ==
    /\ local' = res.store
    /\ done' = [kind |-> kind, ok |-> res.ok, error |-> res.error,
                input |-> input, before |-> local, dbOpen |-> db = "open"]
    /\ lastPass' = NoPass
    /\ UNCHANGED <<now, db, remote, engine, sync, ops, mon, view,
                   isInitialized, lastManualSync, budget>>

\* addTask(task) of useIndexedDB
InsertRequest ==
    \E task \in InsertInputs :
        LET res == addTaskLocal(local, db, task, now)
        IN  Settle("insert", res, [task |-> task, stored |-> res.task])

\* what updateTask of useIndexedDB is called with: the fields of a form, and
\* the same fields with the synced flag the hook adds
StoreUpdateInputs ==
    UpdateInputs \cup {Spread(u, [synced |-> b]) : u \in UpdateInputs, b \in BOOLEAN}

\* updateTask(id, updates) of useIndexedDB
UpdateRequest ==
    \E id \in Ids, updates \in StoreUpdateInputs :
        Settle("update", updateTaskLocal(local, db, id, updates, now),
               [id |-> id, updates |-> updates])

\* deleteTask(id) of useIndexedDB
RemoveRequest ==
    \E id \in Ids :
        Settle("remove", deleteTaskLocal(local, db, id), [id |-> id])

\* clearAndReinitDB() of useIndexedDB
ResetRequest ==
    /\ clearAndReinitDB
    /\ done' = [kind |-> "reset", ok |-> db' = "open", error |-> "",
                input |-> [id |-> -1], before |-> local,
                dbOpen |-> db = "open"]
    /\ lastPass' = NoPass
    /\ UNCHANGED <<now, remote, engine, sync, ops, mon, view,
                   isInitialized, lastManualSync, budget>>

NextStore ==
    \/ Tick
    \/ initDatabase
    \/ InsertRequest
    \/ UpdateRequest
    \/ RemoveRequest
    \/ ResetRequest

SpecStore == Init /\ [][NextStore]_vars

\* ---- mutations the server's validation refuses
\* a photo of the task form that decodes to one byte more than the limit
OversizedImage ==
    [prefix |-> DataUriPrefixLength, b64 |-> Base64Length(MaxImageBytes + 1),
     bytes |-> MaxImageBytes + 1]

\* addTask payloads: valid, with an oversized image, without a title
ValidationAddInputs ==
    {[title |-> "A"],
     [title |-> "A", image |-> OversizedImage],
     [priority |-> "high"]}

\* updateTask payloads: valid, and with an oversized image
ValidationUpdateInputs ==
    {[completed |-> TRUE], [image |-> OversizedImage]}

NextValidation ==
    \/ Tick
    \/ initDatabase
    \/ handleOnline
    \/ handleOffline
    \/ \E taskData \in ValidationAddInputs : addTask(1, taskData)
    \/ AddSteps(1)
    \/ \E id \in Ids, taskData \in ValidationUpdateInputs :
           updateTask(1, id, taskData)
    \/ UpdateRemote(1)
    \/ UpdateLocalSynced(1)
    \/ UpdateLocal(1)

SpecValidation == Init /\ [][NextValidation]_vars

\* ---- the application is loaded again over the stores it left; tasks
\* are added and deleted once its initialization has started
NextStartup ==
    \/ Tick
    \/ initDatabase
    \/ handleOnline
    \/ handleOffline
    \/ initializeApp
    \/ Reload
    \/ isInitialized /\ addTask(1, [title |-> "A"])
    \/ AddSteps(1)
    \/ isInitialized /\ \E id \in Ids : deleteTask(1, id)
    \/ DeleteHealth(1)
    \/ DeleteRemote(1)
    \/ DeleteLocal(1)

SpecStartup == Init /\ [][NextStartup]_vars

\* ---- a record is edited while a pass holds its listed copy: updateTask is
\* called for the record the pass is pushing, and the pass goes on once the
\* call has returned
BeingPushed(id) ==
    \E p \in PassSlots : /\ sync[p].pc \in {"push", "mark"}
                          /\ Head(sync[p].queue).id = id

NextEdits ==
    \/ Tick
    \/ initDatabase
    \/ handleOnline
    \/ handleOffline
    \/ NoPassRunning /\ addTask(1, [title |-> "A"])
    \/ NoPassRunning /\ AddSteps(1)
    \/ NoCallRunning /\ syncNow
    \/ NoCallRunning /\ Pass
    \/ \E id \in Ids, taskData \in UpdateInputs :
           BeingPushed(id) /\ updateTask(1, id, taskData)
    \/ UpdateRemote(1)
    \/ UpdateLocalSynced(1)
    \/ UpdateLocal(1)

SpecEdits == Init /\ [][NextEdits]_vars

\* ---- events that arrive before React has committed the next render
InitRender == InitWith([name |-> "render"])

NextRender ==
    \/ Tick
    \/ initDatabase
    \/ handleOnline
    \/ handleOffline
    \/ handleSWMessage
    \/ syncNow
    \/ Render
    \/ Pass
    \/ NoPassRunning /\ addTask(1, [title |-> "A"])
    \/ NoPassRunning /\ AddSteps(1)

SpecRender == InitRender /\ [][NextRender]_vars

\* ---- two addTask calls in flight at a time
NextAdds ==
    \/ Tick
    \/ initDatabase
    \/ handleOnline
    \/ handleOffline
    \/ \E s \in Slots : addTask(s, [title |-> "A"])
    \/ \E s \in Slots : AddSteps(s)

SpecAdds == Init /\ [][NextAdds]_vars

\* ---- manual triggers beside the other triggers, renders lagging
NextManual ==
    \/ Tick
    \/ initDatabase
    \/ handleOnline
    \/ handleOffline
    \/ handleSWMessage
    \/ handleManualSync
    \/ Render
    \/ Pass
    \/ NoPassRunning /\ addTask(1, [title |-> "A"])
    \/ NoPassRunning /\ AddSteps(1)

SpecManual == InitRender /\ [][NextManual]_vars

\* ---- the remote store serving the requests of any client
\* decoded image sizes around the limit
ImageSizes == {MaxImageBytes - 2, MaxImageBytes, MaxImageBytes + 1}

\* image data as the task form sends it (a data URI) and as bare base64
Images ==
    {[prefix |-> p, b64 |-> Base64Length(n), bytes |-> n] :
        p \in {0, DataUriPrefixLength}, n \in ImageSizes}

PostBodies ==
    {[title |-> "A"], [priority |-> "high"]}
    \cup {[title |-> "A", image |-> img] : img \in Images}

PutBodies ==
    {[completed |-> TRUE]} \cup {[image |-> img] : img \in Images}

\* the response to a request
Respond(kind, status, body) ==
    /\ done' = [kind |-> kind, status |-> status, body |-> body]
    /\ lastPass' = NoPass
    /\ UNCHANGED <<now, db, local, engine, sync, ops, mon, view,
                   isInitialized, lastManualSync, budget>>

\* POST /api/tasks
PostRequest ==
    \E body \in PostBodies :
        LET res == PostTask(remote, body, now)
        IN  /\ res.status = 201 => Len(remote) < MaxRemote
            /\ remote' = res.tasks
            /\ Respond("POST", res.status, body)

\* PUT /api/tasks/:id
PutRequest ==
    \E id \in Ids, body \in PutBodies :
        LET res == PutTask(remote, id, body, now)
        IN  /\ remote' = res.tasks
            /\ Respond("PUT", res.status, Spread(body, [id |-> id]))

\* DELETE /api/tasks/:id
DeleteRequest ==
    \E id \in Ids :
        LET res == DeleteTaskRoute(remote, id)
        IN  /\ remote' = res.tasks
            /\ Respond("DELETE", res.status, [id |-> id])

\* GET /api/stats
StatsRequest ==
    /\ UNCHANGED remote
    /\ Respond("GET stats", 200, StatsRoute(remote))

NextServer ==
    \/ Tick
    \/ PostRequest
    \/ PutRequest
    \/ DeleteRequest
    \/ StatsRequest

SpecServer == Init /\ [][NextServer]_vars

\* =============================================================== claims
\* the stored record with this id is marked synced
StoredSynced(id) == \E r \in local : r.id = id /\ Truthy(r, "synced")

\* the stored record with this id is marked not synced
StoredUnsynced(id) == \E r \in local : r.id = id /\ ~Truthy(r, "synced")

\* a record with this id is stored
Stored(id) == \E r \in local : r.id = id

\* C1 (offline durability): a task added while the remote store is
\* unreachable is stored locally with synced = false, and once a
\* reconciliation pass has completed after pushing a record to the remote
\* store, that record is stored locally with synced = true.
C1_OfflineDurability ==
    /\ (done.kind = "addTask" /\ done.ok
            /\ done.remoteLeg \in {"skipped", "failed"})
       => StoredUnsynced(done.task.id)
    /\ lastPass.outcome = "completed"
       => \A id \in lastPass.okIds \cap mon.ids :
              Stored(id) => StoredSynced(id)

\* C2 (round trip identity): when addTask returns after the remote store
\* accepted the create, the returned record is the stored one, it has
\* synced = true and its id is the one the remote store assigned.
C2_RoundTripIdentity ==
    (done.kind = "addTask" /\ done.ok /\ done.remoteLeg = "created")
    => /\ done.task \in local
       /\ Truthy(done.task, "synced")
       /\ done.task.id = done.serverTask.id

\* the records of a result that carry this title
Titled(tasks, title) ==
    {i \in 1..Len(tasks) : "title" \in DOMAIN tasks[i] /\ tasks[i].title = title}

\* C3 (round trip view): on an initially empty system, once
\* addTask({title: "A"}) has completed with the remote store reachable (the
\* remote store accepted the create), every getTasks that returns afterwards,
\* with any number of reconciliation passes in between, returns exactly one
\* record, titled "A".
C3_RoundTripView ==
    (done.kind = "getTasks" /\ mon.phase = "added")
    => /\ Len(done.tasks) = 1
       /\ Cardinality(Titled(done.tasks, "A")) = 1

\* a getTasks call returned the remote view after the add and a completed pass
C3_Witness ==
    /\ done.kind = "getTasks"
    /\ mon.phase = "added"
    /\ done.source = "remote"
    /\ lastSyncTime >= 0
    /\ C3_RoundTripView

\* C4 (partial failure isolation): when a pass over several unsynced records
\* (records added without a remote create) completes although the remote
\* push of one of them failed, every listed record was attempted, every
\* record whose push failed is still stored with synced = false, and every
\* record whose push succeeded is stored with synced = true.
C4_PartialFailureIsolation ==
    (lastPass.outcome = "completed" /\ lastPass.failIds # {}
        /\ lastPass.listed \subseteq mon.ids)
    => /\ lastPass.listed =
              lastPass.okIds \cup lastPass.failIds \cup lastPass.plainIds
       /\ \A id \in lastPass.failIds : Stored(id) => StoredUnsynced(id)
       /\ \A id \in lastPass.okIds : Stored(id) => StoredSynced(id)

\* C5 (idempotence of syncNow): when a second pass returns after a first
\* pass that completed (no push of it failed), with no mutation and no
\* connectivity change in between, the local store and the remote task
\* collection are what the first pass left.
C5_SyncNowIdempotent ==
    (mon.phase = "second" /\ lastPass.outcome # "none")
    => /\ local = mon.local
       /\ remote = mon.remote

\* C6 (deletion finality): once deleteTask(id) has returned, no getTasks that
\* returns afterwards contains a record with that id (no later call creates
\* a record with that id).
C6_DeletionFinality ==
    done.kind = "getTasks"
    => \A i \in 1..Len(done.tasks) : done.tasks[i].id \notin mon.ids

\* C7 (stats consistency): the statistics getStats returns, computed locally
\* or by the remote stats endpoint, satisfy total = the number of records,
\* pending = total - completed and highPriority <= pending.
C7_StatsConsistent ==
    done.kind = "getStats"
    => LET stats == done.stats
           records == IF done.source = "remote" THEN Len(remote)
                      ELSE Cardinality(local)
       IN  /\ stats.total = records
           /\ stats.pending = stats.total - stats.completed
           /\ stats.highPriority <= stats.pending

\* getStats fell back to the local computation over a store that holds a
\* completed task and an open high priority task
C7_Witness ==
    /\ done.kind = "getStats"
    /\ done.source = "local"
    /\ done.stats.completed > 0
    /\ done.stats.highPriority > 0
    /\ C7_StatsConsistent

\* C8 (size boundary): a create with a title, or an update of an existing
\* task, whose image decodes to exactly 5 MiB is accepted, and one whose image
\* decodes to 5 MiB + 1 byte is rejected with status 400.
C8_SizeBoundary ==
    (/\ done.kind \in {"POST", "PUT"}
     /\ "image" \in DOMAIN done.body
     /\ done.kind = "POST" => HasTitle(done.body)
     /\ done.kind = "PUT" => done.status # 404)
    => /\ done.body.image.bytes = MaxImageBytes
              => done.status \in {200, 201}
       /\ done.body.image.bytes = MaxImageBytes + 1 => done.status = 400

Calls == {"addTask", "updateTask", "deleteTask", "getTasks", "getStats"}

\* C9 (offline operations): a call of addTask, updateTask (of a stored
\* record), deleteTask, getTasks or getStats made while the remote store is
\* unreachable (isOnline is false) and the database is open completes
\* successfully and issues no remote request.
C9_OfflineOperations ==
    (/\ done.kind \in Calls
     /\ ~done.cOnline
     /\ done.dbOpen
     /\ done.kind = "updateTask" => done.wasLocal)
    => /\ done.ok
       /\ done.reqs = 0

\* C10 (automatic sync on reconnect): when the engine goes from unreachable
\* to reachable while no pass is running, it starts a reconciliation pass.
C10_AutoSyncOnReconnect ==
    [][(~isOnline /\ isOnline' /\ ~isSyncing) => isSyncing']_vars

\* C11 (never stuck in Syncing): provided every awaited call eventually
\* returns or fails, a pass that set isSyncing = true eventually resets it to
\* false, on every exit path (gate failure, completion, failed local listing,
\* failed remote call).
C11_NeverStuckSyncing == isSyncing ~> ~isSyncing

\* a pass that entered Syncing left through the exception path
C11_Witness ==
    /\ lastPass.outcome = "error"
    /\ syncError # "null"
    /\ ~isSyncing


\* the passes between their entry and their finally block
RunningPasses == {p \in PassSlots : sync[p].pc # "idle"}

\* C12: at no time are two reconciliation passes running: a trigger that
\* arrives while a pass is between its entry and its finally block starts
\* no second pass.
C12_MutualExclusion == Cardinality(RunningPasses) <= 1

\* the call awaits the answer to a request other than the health check
AwaitsRemote(o) ==
    \/ o.kind = "addTask" /\ o.pc = "create"
    \/ o.kind \in {"updateTask", "deleteTask", "getTasks", "getStats"}
       /\ o.pc = "remote"

\* the pass is past its gate: it lists, pushes or fetches
PastGate(s) == s.pc \in {"list", "push", "mark", "fetch"}

\* C13: every remote create, update, delete, list or stats request of a
\* call or of a pass is issued with isOnline true and after a health check
\* of the same operation that succeeded.
C13_ReachabilityGate ==
    /\ \A s \in Slots :
           AwaitsRemote(ops[s]) => ops[s].cOnline /\ ops[s].gate
    /\ \A p \in PassSlots : PastGate(sync[p]) => sync[p].gate

\* C14: when its first local insert succeeds, addTask resolves without
\* raising whatever the health check and the remote create answer; when the
\* create failed or was skipped, the local store holds the record with
\* synced = false and addTask returns the record that insert stored.
C14_AddAbsorbsRemoteFailure ==
    (done.kind = "addTask" /\ done.inserted) =>
        /\ done.ok
        /\ done.remoteLeg \in {"failed", "skipped"} =>
               /\ Truthy(done.task, "isNew") /\ done.task.synced = FALSE
               /\ \E r \in local : /\ r.id = done.task.id
                                    /\ r.title = done.data.title
                                    /\ r.synced = FALSE

\* the server refused or did not answer the create, and addTask returned
\* the local record
C14_Witness ==
    /\ done.kind = "addTask"
    /\ done.inserted
    /\ done.ok
    /\ done.remoteLeg = "failed"
    /\ Truthy(done.task, "isNew")

\* the record stored under id carries every field of data
Carries(store, id, data) ==
    \E r \in store : /\ r.id = id
                      /\ \A f \in DOMAIN data : f \in DOMAIN r /\ r[f] = data[f]

\* C15: for an id present in an open local store, updateTask(id, fields)
\* resolves without error whether the remote update succeeded, failed or
\* was skipped, and the local record then carries the new fields.
C15_UpdateAbsorbsRemoteFailure ==
    (done.kind = "updateTask" /\ done.wasLocal /\ done.dbOpen) =>
        /\ done.ok
        /\ Carries(local, done.id, done.data)

\* the remote update failed and the call fell back to the local store
C15_Witness ==
    /\ done.kind = "updateTask"
    /\ done.wasLocal /\ done.dbOpen
    /\ done.remoteLeg = "failed"
    /\ done.ok
    /\ Carries(local, done.id, done.data)

\* the record stored under id has synced = b
SyncedIs(store, id, b) == \E r \in store : r.id = id /\ Truthy(r, "synced") = b

\* C16: for an id present locally, once updateTask(id, fields) has resolved
\* the local record has synced = true if the remote update succeeded and
\* synced = false if it failed or was not attempted.
C16_UpdateSetsSynced ==
    (done.kind = "updateTask" /\ done.wasLocal /\ done.dbOpen /\ done.ok) =>
        SyncedIs(local, done.id, done.remoteLeg = "updated")

\* C17: with the database open deleteTask(id) resolves, a failed remote
\* delete being swallowed, and once it has resolved the local store holds
\* no record with that id, whether the remote delete succeeded, failed or
\* was skipped.
C17_DeleteRemovesLocally ==
    done.kind = "deleteTask" =>
        /\ done.dbOpen => done.ok
        /\ done.ok => ~\E r \in local : r.id = done.id

\* a record that was stored is gone although the remote delete failed
C17_Witness ==
    /\ done.kind = "deleteTask"
    /\ done.wasLocal
    /\ done.remoteLeg = "failed"
    /\ done.ok
    /\ ~\E r \in local : r.id = done.id

\* C18: the local store's insert keeps an id the caller supplied and a
\* synced value the caller supplied, and stores synced = false when the
\* caller supplied none.
C18_InsertKeepsIdAndSynced ==
    (done.kind = "insert" /\ done.ok) =>
        LET task == done.input.task
            stored == done.input.stored
        IN  /\ stored \in local
            /\ "id" \in DOMAIN task => stored.id = task.id
            /\ stored.synced = IF "synced" \in DOMAIN task THEN task.synced
                                ELSE FALSE

\* a remove of an id that no record of the open store has
RemovedAbsent ==
    /\ done.kind = "remove"
    /\ done.dbOpen
    /\ ~\E r \in done.before : r.id = done.input.id

\* C19 as stated: the local store's remove of an id that is not in the
\* store reports an error (NotFound) and leaves the store unchanged.
C19_RemoveAbsentReportsNotFound ==
    RemovedAbsent => ~done.ok /\ local = done.before

\* C19 as the code has it: the local store's remove of an id that is not
\* in the store resolves without an error and leaves the store unchanged.
C19_RemoveAbsentResolves ==
    RemovedAbsent => done.ok /\ local = done.before

\* an absent id was removed from a store that holds another record
C19_Witness ==
    /\ RemovedAbsent
    /\ done.ok
    /\ local # {}
    /\ local = done.before

\* the payload of the mutation fails the validation: an image above the
\* limit, or an addTask without a title
FailsValidation(kind, data) ==
    \/ "image" \in DOMAIN data /\ data.image.bytes > MaxImageBytes
    \/ kind = "addTask" /\ ~HasTitle(data)

\* C20: an addTask or updateTask carrying an image above the 5 MiB limit,
\* and an addTask without a title, fail with an error reported to the
\* caller instead of resolving.
C20_ValidationSurfaced ==
    (/\ done.kind \in {"addTask", "updateTask"}
     /\ FailsValidation(done.kind, done.data))
    => ~done.ok

\* C21: in every reachable state no two records of the local store share
\* an id, inserts within one clock tick included.
C21_UniqueIds == \A a, b \in local : a.id = b.id => a = b

\* an insert in the clock tick of a stored record has been refused
C21_Witness ==
    /\ done.kind = "insert"
    /\ done.error = "ConstraintError"
    /\ \E r \in local : r.id = now /\ Truthy(r, "completed")
    /\ C21_UniqueIds

\* the step removes no unsynced record, or only the one of id
RemovesUnsyncedOnly(id) ==
    \A r \in local :
        (~Truthy(r, "synced") /\ ~\E q \in local' : q.id = r.id) => r.id = id

\* C23: a record with synced = false leaves the local store only by a
\* deleteTask of its id, or by addTask replacing its own temporary record
\* after a successful remote create; no other step removes it.
C23_UnsyncedNeverDestroyed ==
    [][\/ RemovesUnsyncedOnly(-1)
       \/ \E s \in Slots :
            \/ /\ ops[s].kind = "deleteTask"
               /\ RemovesUnsyncedOnly(ops[s].id)
            \/ /\ ops[s].kind = "addTask" /\ ops[s].pc = "delete"
               /\ RemovesUnsyncedOnly(ops[s].newTask.id)
       \/ /\ done'.kind = "deleteTask"
          /\ RemovesUnsyncedOnly(done'.id)]_vars


\* the ids of the records for which pass p has a remote create accepted in
\* this step
CreatedNow(p) == sync'[p].okIds \ sync[p].okIds

\* C22: each locally created record causes at most one successful remote
\* create: no pass has a create accepted for a record that a completed
\* create has already marked serverCreated.
C22_NoRemoteDuplication ==
    [][\A p \in PassSlots : \A id \in CreatedNow(p) :
          ~\E r \in local : r.id = id /\ Truthy(r, "serverCreated")]_vars


\* C24: a pass that passed the gate and ran to its end has issued, for each
\* record that was unsynced when it listed the local store, a remote create
\* or a remote update; it writes synced = true for no record without one.
C24_PassPushesEveryRecord ==
    lastPass.outcome = "completed" =>
        /\ lastPass.listed \subseteq lastPass.okIds \cup lastPass.failIds
        /\ lastPass.plainIds = {}


\* a stored record that no remote create was accepted for
LocalOnly(r) ==
    /\ Truthy(r, "isNew")
    /\ ~Truthy(r, "synced")
    /\ ~Truthy(r, "serverCreated")

\* C25: every record of the local store that is unsynced and was never
\* created on the remote store is in the result of getTasks, whatever the
\* remote list holds.
C25_LocalOnlyWorkShown ==
    (done.kind = "getTasks" /\ done.dbOpen) =>
        \A r \in local :
            LocalOnly(r) =>
                \E i \in 1..Len(done.tasks) :
                    done.tasks[i].id = r.id /\ LocalOnly(done.tasks[i])


\* getTasks answered from a remote list that was not empty
FromRemote == done.kind = "getTasks" /\ done.source = "remote"

\* C26 as stated: when the gate passes and the remote list is not empty,
\* the result of getTasks is exactly the remote collection.
C26_ExactlyRemote == FromRemote => done.tasks = remote

\* the title of the record is the title of no remote task
TitleNotRemote(r) == \A i \in 1..Len(remote) : remote[i].title # r.title

\* C26 as the code has it: when the gate passes and the remote list is not
\* empty, the result of getTasks is the remote collection followed by the
\* local records, as read at the start of the call, that are unsynced, not
\* serverCreated and titled like no remote task.
C26_RemoteThenPending ==
    FromRemote =>
        /\ Len(done.tasks) >= Len(remote)
        /\ SubSeq(done.tasks, 1, Len(remote)) = remote
        /\ SubSeq(done.tasks, Len(remote) + 1, Len(done.tasks))
              = SelectSeq(done.localTasks,
                          LAMBDA r : /\ ~Truthy(r, "synced")
                                     /\ ~Truthy(r, "serverCreated")
                                     /\ TitleNotRemote(r))

\* the result holds a local record after the remote tasks
C26_Witness ==
    /\ FromRemote
    /\ Len(done.tasks) > Len(remote)
    /\ Len(done.tasks) < Len(remote) + Len(done.localTasks)


\* C27: getTasks returns exactly the local store's view whenever the remote
\* list is empty or the remote is unreachable (isOnline false, health check
\* failed, or the list request failed), and never raises then.
C27_LocalViewWhenNoRemote ==
    (done.kind = "getTasks" /\ done.source = "local") =>
        /\ done.ok
        /\ done.tasks = getTasksLocal(local, db)
        /\ done.tasks = done.localTasks

\* the list request failed and the local records were returned
C27_Witness ==
    /\ done.kind = "getTasks"
    /\ done.source = "local"
    /\ done.reqs = 2
    /\ done.ok
    /\ Len(remote) > 0
    /\ Len(done.tasks) > 0
    /\ done.tasks = done.localTasks


\* the task the server appended in this step
Appended == remote'[Len(remote')]

\* C28: when a pass has a create accepted for a locally created record,
\* the remote copy has the title, completed and priority the local record
\* has at that time.
C28_PushFidelity ==
    [][\A p \in PassSlots : \A id \in CreatedNow(p) :
          \A r \in local :
              r.id = id =>
                  /\ Appended.title = ValidateTask(r).title
                  /\ Appended.completed = ValidateTask(r).completed
                  /\ Appended.priority = ValidateTask(r).priority]_vars


\* pass p writes back, in this step, the record it had a create accepted for
WritesBack(p) == sync[p].pc = "mark" /\ sync'[p].pc # "mark"

\* the record pass p is about to write back was edited after the pass
\* listed it: the stored completed differs from the listed (and pushed) one
EditedSinceListed(p) ==
    \E r \in local :
        /\ r.id = Head(sync[p].queue).id
        /\ ValidateTask(r).completed # Head(sync[p].queue).completed

\* C29: the interleaving in which an updateTask of a record completes
\* between a pass listing that record and the pass writing it back leaves
\* the record stored with synced = true, although the values the update
\* wrote were never accepted by the remote store.
C29_StaleSyncedRace ==
    [][\A p \in PassSlots :
          (WritesBack(p) /\ EditedSinceListed(p)) =>
              \E r \in local' :
                  /\ r.id = Head(sync[p].queue).id
                  /\ ValidateTask(r).completed # Head(sync[p].queue).completed
                  /\ Truthy(r, "synced")]_vars

\* no stored record ever has synced = true
NeverStoredSynced == \A r \in local : ~Truthy(r, "synced")


\* pass p writes back, in this step, a record it pushed with no request
WritesBackExisting(p) ==
    /\ sync[p].pc = "push"
    /\ ~Truthy(Head(sync[p].queue), "isNew")
    /\ sync'[p] # sync[p]

\* the fields a write-back of a pass sets
WriteBackFields == {"synced", "serverCreated", "updatedAt"}

\* C30: the write-back of a pass changes only the synced and serverCreated
\* flags and updatedAt of the record: the other fields, those written by an
\* updateTask that completed after the pass listed the record included, are
\* still stored afterwards.
C30_WriteBackKeepsEdits ==
    [][\A p \in PassSlots :
          (WritesBack(p) \/ WritesBackExisting(p)) =>
              \A r \in local :
                  r.id = Head(sync[p].queue).id =>
                      \E q \in local' :
                          /\ q.id = r.id
                          /\ \A f \in DOMAIN r \ WriteBackFields :
                                f \in DOMAIN q /\ q[f] = r[f]]_vars

\* the first pass has written back a record that was completed while the
\* pass was pushing it, and the record is still completed
C30_Witness ==
    /\ budget.passes = 1
    /\ lastPass.outcome = "completed"
    /\ \E r \in local : /\ r.id \in lastPass.okIds
                        /\ Truthy(r, "serverCreated")
                        /\ Truthy(r, "completed")


\* C31: if the local write of updateTask fails (no record stored under the
\* id, or the store is not open), updateTask reports failure to its caller,
\* whether or not the remote update succeeded.
C31_LocalFailureFatal ==
    (done.kind = "updateTask" /\ ~done.localOk) => ~done.ok


\* pass p, which passed the gate, returns in this step
PassEnds(p) ==
    /\ sync[p].gate
    /\ sync[p].pc # "idle"
    /\ sync'[p].pc = "idle"
    /\ lastPass'.outcome # "none"

\* the push of a record by pass p fails in this step
PushFails(p) ==
    /\ sync[p].pc = "push"
    /\ \/ sync'[p].failIds # sync[p].failIds
       \/ sync'[p].pc = "idle" /\ lastPass'.failIds # sync[p].failIds

\* C32: a pass that passed the gate ends either in normal completion, with
\* lastSyncTime set to now and syncError null, or in an exception outside the
\* per-record handling (the listing of the local records fails, or the remote
\* list of the nothing-to-push branch fails), with syncError set and
\* lastSyncTime unchanged; the failure of a record's push never sets
\* syncError.
C32_PassEndings ==
    [][\A p \in PassSlots :
          /\ PassEnds(p) =>
                \/ /\ lastPass'.outcome = "completed"
                   /\ lastSyncTime' = now'
                   /\ syncError' = "null"
                \/ /\ lastPass'.outcome = "error"
                   /\ sync[p].pc \in {"list", "fetch"}
                   /\ syncError' # "null"
                   /\ lastSyncTime' = lastSyncTime
          /\ PushFails(p) => syncError' = syncError]_vars


\* the health check of pass p fails in this step
GateFails(p) ==
    /\ sync[p].pc = "gate"
    /\ sync'[p].pc = "idle"
    /\ lastPass'.outcome = "gateFailed"

\* C33: a pass whose reachability gate fails returns to Idle with syncError
\* null and lastSyncTime unchanged, having modified no local record and
\* issued no remote create, update, delete or list.
C33_GateFailureIsQuiet ==
    [][\A p \in PassSlots :
          GateFails(p) =>
              /\ ~isSyncing'
              /\ syncError' = "null"
              /\ lastSyncTime' = lastSyncTime
              /\ local' = local
              /\ remote' = remote
              /\ lastPass'.listed = {}
              /\ lastPass'.okIds \cup lastPass'.failIds \cup lastPass'.plainIds = {}]_vars


\* C34: a syncNow invoked while isOnline is false or while a pass is Syncing
\* is a no-op: isSyncing, syncError, lastSyncTime, the local store and the
\* remote store are unchanged and no pass, hence no request, is started.
C34_RefusedSyncNowIsNoOp ==
    [][((syncNow \/ handleSWMessage) /\ (~isOnline \/ isSyncing)) =>
          UNCHANGED <<isSyncing, syncError, lastSyncTime, local, remote, sync>>]_vars


\* C35: a manual sync arriving less than the cooldown (3000 ms) after the
\* last accepted manual trigger, or while a pass is Syncing, does not invoke
\* syncNow: a manual trigger is accepted only while no pass is Syncing and at
\* least 3000 ms after the last accepted one.
C35_ManualSyncDebounced ==
    [][lastManualSync' # lastManualSync =>
          /\ ~isSyncing
          /\ \/ lastManualSync = -1
             \/ DateNow - lastManualSync >= ManualSyncCooldown]_vars


\* C36: update(id, partialFields) of the local store on an existing id
\* stores the old record overridden by every field of partialFields (synced
\* included when the caller supplies it) with updatedAt bumped, and leaves
\* every other record unchanged; on an absent id it fails with NotFound and
\* leaves the whole store unchanged.
C36_UpdateMerges ==
    done.kind = "update" =>
        IF done.dbOpen /\ \E r \in done.before : r.id = done.input.id
        THEN /\ done.ok
             /\ \E r \in done.before :
                   LET q == Spread(Spread(r, done.input.updates),
                                   [updatedAt |-> now])
                   IN  /\ r.id = done.input.id
                       /\ q \in local
                       /\ local \ {q} = done.before \ {r}
        ELSE /\ ~done.ok
             /\ local = done.before
             /\ done.dbOpen => done.error = "Task not found"


\* C37: if the initial local insert of addTask succeeded, then when addTask
\* resolves the local store holds a record whose id is the id of the record
\* addTask returned, whatever the outcomes of the remote create, of the local
\* delete and of the re-insert.
C37_AddKeepsItsRecord ==
    (done.kind = "addTask" /\ done.inserted) =>
        \E r \in local : r.id = done.task.id


\* the image of the body decodes to more than the limit
Oversized(body) ==
    "image" \in DOMAIN body /\ body.image.bytes > MaxImageBytes

\* the request answered in this step is one the server has to refuse
MustRefuse ==
    \/ done'.kind = "POST" /\ (~HasTitle(done'.body) \/ Oversized(done'.body))
    \/ /\ done'.kind = "PUT"
       /\ FindIndex(remote, done'.body.id) = 0 \/ Oversized(done'.body)
    \/ done'.kind = "DELETE" /\ FindIndex(remote, done'.body.id) = 0

====
